---------------------------- MODULE Spec2Model ----------------------------
(***************************************************************************)
(* A model of streamlit_app.py, the VK video downloader page.              *)
(*                                                                         *)
(* Python strings whose characters matter (cookie headers, URLs, the keys  *)
(* of the player parameters, quality labels) are sequences of one-character*)
(* strings; strings that are only compared or passed on (media URLs,       *)
(* titles, user messages) are TLA+ strings.  A Python dict is the sequence *)
(* of its <<key, value>> items in insertion order, keys unique.  Optional  *)
(* values and JSON values are tagged tuples <<tag, ...>>.                  *)
(***************************************************************************)
EXTENDS Integers, Sequences, FiniteSets, TLC

VARIABLES
    vk_cookies,     \* st.session_state.vk_cookies: None or a dict
    video_url,      \* the value of the URL text input
    pc,             \* position of the current script run
    video_id,       \* get_video_info: local video_id
    json_data,      \* get_video_info: the decoded POST body
    video_info,     \* the value get_video_info returns
    requests,       \* outbound HTTP calls of the current run, in order
    messages,       \* st.error / st.warning / ... calls of the current run
    rendered,       \* quality entries rendered by the current run
    last_post,      \* the response the metadata POST received
    last_get,       \* the response the fallback GET received
    parser_ret,     \* what parse_video_data returned to get_video_info
    last_save,      \* history: input of the most recent "Save Cookies" click
    fn_in,          \* argument of a function exercised on its own
    fn_out          \* its result

appVars == <<vk_cookies, video_url, pc, video_id, json_data, video_info,
             requests, messages, rendered, last_post, last_get, parser_ret,
             last_save>>
fnVars == <<fn_in, fn_out>>
vars == <<vk_cookies, video_url, pc, video_id, json_data, video_info,
          requests, messages, rendered, last_post, last_get, parser_ret,
          last_save, fn_in, fn_out>>

\* Python's None.
None == <<"None">>
\* A function exercised on its own has not been called yet.
Pending == <<"pending">>

(***************************************************************************)
(* Bounds of the model.                                                    *)
(***************************************************************************)
\* Longest joined cookie string drawn for the join/parse round trip.
MaxCookieLen == 7
\* Most entries in a player parameter mapping drawn for the parser.
MaxParams == 2

(***************************************************************************)
(* Python str and dict operations.                                         *)
(***************************************************************************)
\* A character outside printable ASCII other than tab, line feed, form feed
\* and carriage return is written as the token "U+" and its code point in
\* hexadecimal, e.g. "U+0663" for ARABIC-INDIC DIGIT THREE; such a token is
\* one element of a string.  The three classes below are those of the
\* Unicode 14.0.0 tables of CPython 3.11.

\* Characters str.strip() removes: those str.isspace() accepts.
Whitespace ==
    {"\t", "\n", "U+000B", "\f", "\r", "U+001C", "U+001D", "U+001E",
     "U+001F", " ", "U+0085", "U+00A0", "U+1680", "U+2000", "U+2001",
     "U+2002", "U+2003", "U+2004", "U+2005", "U+2006", "U+2007", "U+2008",
     "U+2009", "U+200A", "U+2028", "U+2029", "U+202F", "U+205F", "U+3000"}

\* Characters the regex class \d accepts in a str pattern: the decimal digits
\* (general category Nd), ten to a script.
DecimalDigits ==
    {"0", "1", "2", "3", "4", "5", "6", "7", "8", "9", "U+0660", "U+0661",
     "U+0662", "U+0663", "U+0664", "U+0665", "U+0666", "U+0667", "U+0668",
     "U+0669", "U+06F0", "U+06F1", "U+06F2", "U+06F3", "U+06F4", "U+06F5",
     "U+06F6", "U+06F7", "U+06F8", "U+06F9", "U+07C0", "U+07C1", "U+07C2",
     "U+07C3", "U+07C4", "U+07C5", "U+07C6", "U+07C7", "U+07C8", "U+07C9",
     "U+0966", "U+0967", "U+0968", "U+0969", "U+096A", "U+096B", "U+096C",
     "U+096D", "U+096E", "U+096F", "U+09E6", "U+09E7", "U+09E8", "U+09E9",
     "U+09EA", "U+09EB", "U+09EC", "U+09ED", "U+09EE", "U+09EF", "U+0A66",
     "U+0A67", "U+0A68", "U+0A69", "U+0A6A", "U+0A6B", "U+0A6C", "U+0A6D",
     "U+0A6E", "U+0A6F", "U+0AE6", "U+0AE7", "U+0AE8", "U+0AE9", "U+0AEA",
     "U+0AEB", "U+0AEC", "U+0AED", "U+0AEE", "U+0AEF", "U+0B66", "U+0B67",
     "U+0B68", "U+0B69", "U+0B6A", "U+0B6B", "U+0B6C", "U+0B6D", "U+0B6E",
     "U+0B6F", "U+0BE6", "U+0BE7", "U+0BE8", "U+0BE9", "U+0BEA", "U+0BEB",
     "U+0BEC", "U+0BED", "U+0BEE", "U+0BEF", "U+0C66", "U+0C67", "U+0C68",
     "U+0C69", "U+0C6A", "U+0C6B", "U+0C6C", "U+0C6D", "U+0C6E", "U+0C6F",
     "U+0CE6", "U+0CE7", "U+0CE8", "U+0CE9", "U+0CEA", "U+0CEB", "U+0CEC",
     "U+0CED", "U+0CEE", "U+0CEF", "U+0D66", "U+0D67", "U+0D68", "U+0D69",
     "U+0D6A", "U+0D6B", "U+0D6C", "U+0D6D", "U+0D6E", "U+0D6F", "U+0DE6",
     "U+0DE7", "U+0DE8", "U+0DE9", "U+0DEA", "U+0DEB", "U+0DEC", "U+0DED",
     "U+0DEE", "U+0DEF", "U+0E50", "U+0E51", "U+0E52", "U+0E53", "U+0E54",
     "U+0E55", "U+0E56", "U+0E57", "U+0E58", "U+0E59", "U+0ED0", "U+0ED1",
     "U+0ED2", "U+0ED3", "U+0ED4", "U+0ED5", "U+0ED6", "U+0ED7", "U+0ED8",
     "U+0ED9", "U+0F20", "U+0F21", "U+0F22", "U+0F23", "U+0F24", "U+0F25",
     "U+0F26", "U+0F27", "U+0F28", "U+0F29", "U+1040", "U+1041", "U+1042",
     "U+1043", "U+1044", "U+1045", "U+1046", "U+1047", "U+1048", "U+1049",
     "U+1090", "U+1091", "U+1092", "U+1093", "U+1094", "U+1095", "U+1096",
     "U+1097", "U+1098", "U+1099", "U+17E0", "U+17E1", "U+17E2", "U+17E3",
     "U+17E4", "U+17E5", "U+17E6", "U+17E7", "U+17E8", "U+17E9", "U+1810",
     "U+1811", "U+1812", "U+1813", "U+1814", "U+1815", "U+1816", "U+1817",
     "U+1818", "U+1819", "U+1946", "U+1947", "U+1948", "U+1949", "U+194A",
     "U+194B", "U+194C", "U+194D", "U+194E", "U+194F", "U+19D0", "U+19D1",
     "U+19D2", "U+19D3", "U+19D4", "U+19D5", "U+19D6", "U+19D7", "U+19D8",
     "U+19D9", "U+1A80", "U+1A81", "U+1A82", "U+1A83", "U+1A84", "U+1A85",
     "U+1A86", "U+1A87", "U+1A88", "U+1A89", "U+1A90", "U+1A91", "U+1A92",
     "U+1A93", "U+1A94", "U+1A95", "U+1A96", "U+1A97", "U+1A98", "U+1A99",
     "U+1B50", "U+1B51", "U+1B52", "U+1B53", "U+1B54", "U+1B55", "U+1B56",
     "U+1B57", "U+1B58", "U+1B59", "U+1BB0", "U+1BB1", "U+1BB2", "U+1BB3",
     "U+1BB4", "U+1BB5", "U+1BB6", "U+1BB7", "U+1BB8", "U+1BB9", "U+1C40",
     "U+1C41", "U+1C42", "U+1C43", "U+1C44", "U+1C45", "U+1C46", "U+1C47",
     "U+1C48", "U+1C49", "U+1C50", "U+1C51", "U+1C52", "U+1C53", "U+1C54",
     "U+1C55", "U+1C56", "U+1C57", "U+1C58", "U+1C59", "U+A620", "U+A621",
     "U+A622", "U+A623", "U+A624", "U+A625", "U+A626", "U+A627", "U+A628",
     "U+A629", "U+A8D0", "U+A8D1", "U+A8D2", "U+A8D3", "U+A8D4", "U+A8D5",
     "U+A8D6", "U+A8D7", "U+A8D8", "U+A8D9", "U+A900", "U+A901", "U+A902",
     "U+A903", "U+A904", "U+A905", "U+A906", "U+A907", "U+A908", "U+A909",
     "U+A9D0", "U+A9D1", "U+A9D2", "U+A9D3", "U+A9D4", "U+A9D5", "U+A9D6",
     "U+A9D7", "U+A9D8", "U+A9D9", "U+A9F0", "U+A9F1", "U+A9F2", "U+A9F3",
     "U+A9F4", "U+A9F5", "U+A9F6", "U+A9F7", "U+A9F8", "U+A9F9", "U+AA50",
     "U+AA51", "U+AA52", "U+AA53", "U+AA54", "U+AA55", "U+AA56", "U+AA57",
     "U+AA58", "U+AA59", "U+ABF0", "U+ABF1", "U+ABF2", "U+ABF3", "U+ABF4",
     "U+ABF5", "U+ABF6", "U+ABF7", "U+ABF8", "U+ABF9", "U+FF10", "U+FF11",
     "U+FF12", "U+FF13", "U+FF14", "U+FF15", "U+FF16", "U+FF17", "U+FF18",
     "U+FF19", "U+104A0", "U+104A1", "U+104A2", "U+104A3", "U+104A4",
     "U+104A5", "U+104A6", "U+104A7", "U+104A8", "U+104A9", "U+10D30",
     "U+10D31", "U+10D32", "U+10D33", "U+10D34", "U+10D35", "U+10D36",
     "U+10D37", "U+10D38", "U+10D39", "U+11066", "U+11067", "U+11068",
     "U+11069", "U+1106A", "U+1106B", "U+1106C", "U+1106D", "U+1106E",
     "U+1106F", "U+110F0", "U+110F1", "U+110F2", "U+110F3", "U+110F4",
     "U+110F5", "U+110F6", "U+110F7", "U+110F8", "U+110F9", "U+11136",
     "U+11137", "U+11138", "U+11139", "U+1113A", "U+1113B", "U+1113C",
     "U+1113D", "U+1113E", "U+1113F", "U+111D0", "U+111D1", "U+111D2",
     "U+111D3", "U+111D4", "U+111D5", "U+111D6", "U+111D7", "U+111D8",
     "U+111D9", "U+112F0", "U+112F1", "U+112F2", "U+112F3", "U+112F4",
     "U+112F5", "U+112F6", "U+112F7", "U+112F8", "U+112F9", "U+11450",
     "U+11451", "U+11452", "U+11453", "U+11454", "U+11455", "U+11456",
     "U+11457", "U+11458", "U+11459", "U+114D0", "U+114D1", "U+114D2",
     "U+114D3", "U+114D4", "U+114D5", "U+114D6", "U+114D7", "U+114D8",
     "U+114D9", "U+11650", "U+11651", "U+11652", "U+11653", "U+11654",
     "U+11655", "U+11656", "U+11657", "U+11658", "U+11659", "U+116C0",
     "U+116C1", "U+116C2", "U+116C3", "U+116C4", "U+116C5", "U+116C6",
     "U+116C7", "U+116C8", "U+116C9", "U+11730", "U+11731", "U+11732",
     "U+11733", "U+11734", "U+11735", "U+11736", "U+11737", "U+11738",
     "U+11739", "U+118E0", "U+118E1", "U+118E2", "U+118E3", "U+118E4",
     "U+118E5", "U+118E6", "U+118E7", "U+118E8", "U+118E9", "U+11950",
     "U+11951", "U+11952", "U+11953", "U+11954", "U+11955", "U+11956",
     "U+11957", "U+11958", "U+11959", "U+11C50", "U+11C51", "U+11C52",
     "U+11C53", "U+11C54", "U+11C55", "U+11C56", "U+11C57", "U+11C58",
     "U+11C59", "U+11D50", "U+11D51", "U+11D52", "U+11D53", "U+11D54",
     "U+11D55", "U+11D56", "U+11D57", "U+11D58", "U+11D59", "U+11DA0",
     "U+11DA1", "U+11DA2", "U+11DA3", "U+11DA4", "U+11DA5", "U+11DA6",
     "U+11DA7", "U+11DA8", "U+11DA9", "U+16A60", "U+16A61", "U+16A62",
     "U+16A63", "U+16A64", "U+16A65", "U+16A66", "U+16A67", "U+16A68",
     "U+16A69", "U+16AC0", "U+16AC1", "U+16AC2", "U+16AC3", "U+16AC4",
     "U+16AC5", "U+16AC6", "U+16AC7", "U+16AC8", "U+16AC9", "U+16B50",
     "U+16B51", "U+16B52", "U+16B53", "U+16B54", "U+16B55", "U+16B56",
     "U+16B57", "U+16B58", "U+16B59", "U+1D7CE", "U+1D7CF", "U+1D7D0",
     "U+1D7D1", "U+1D7D2", "U+1D7D3", "U+1D7D4", "U+1D7D5", "U+1D7D6",
     "U+1D7D7", "U+1D7D8", "U+1D7D9", "U+1D7DA", "U+1D7DB", "U+1D7DC",
     "U+1D7DD", "U+1D7DE", "U+1D7DF", "U+1D7E0", "U+1D7E1", "U+1D7E2",
     "U+1D7E3", "U+1D7E4", "U+1D7E5", "U+1D7E6", "U+1D7E7", "U+1D7E8",
     "U+1D7E9", "U+1D7EA", "U+1D7EB", "U+1D7EC", "U+1D7ED", "U+1D7EE",
     "U+1D7EF", "U+1D7F0", "U+1D7F1", "U+1D7F2", "U+1D7F3", "U+1D7F4",
     "U+1D7F5", "U+1D7F6", "U+1D7F7", "U+1D7F8", "U+1D7F9", "U+1D7FA",
     "U+1D7FB", "U+1D7FC", "U+1D7FD", "U+1D7FE", "U+1D7FF", "U+1E140",
     "U+1E141", "U+1E142", "U+1E143", "U+1E144", "U+1E145", "U+1E146",
     "U+1E147", "U+1E148", "U+1E149", "U+1E2F0", "U+1E2F1", "U+1E2F2",
     "U+1E2F3", "U+1E2F4", "U+1E2F5", "U+1E2F6", "U+1E2F7", "U+1E2F8",
     "U+1E2F9", "U+1E950", "U+1E951", "U+1E952", "U+1E953", "U+1E954",
     "U+1E955", "U+1E956", "U+1E957", "U+1E958", "U+1E959", "U+1FBF0",
     "U+1FBF1", "U+1FBF2", "U+1FBF3", "U+1FBF4", "U+1FBF5", "U+1FBF6",
     "U+1FBF7", "U+1FBF8", "U+1FBF9"}

\* Characters str.isdigit() accepts besides the decimal digits: superscripts,
\* subscripts, circled digits and the like.
OtherDigits ==
    {"U+00B2", "U+00B3", "U+00B9", "U+1369", "U+136A", "U+136B", "U+136C",
     "U+136D", "U+136E", "U+136F", "U+1370", "U+1371", "U+19DA", "U+2070",
     "U+2074", "U+2075", "U+2076", "U+2077", "U+2078", "U+2079", "U+2080",
     "U+2081", "U+2082", "U+2083", "U+2084", "U+2085", "U+2086", "U+2087",
     "U+2088", "U+2089", "U+2460", "U+2461", "U+2462", "U+2463", "U+2464",
     "U+2465", "U+2466", "U+2467", "U+2468", "U+2474", "U+2475", "U+2476",
     "U+2477", "U+2478", "U+2479", "U+247A", "U+247B", "U+247C", "U+2488",
     "U+2489", "U+248A", "U+248B", "U+248C", "U+248D", "U+248E", "U+248F",
     "U+2490", "U+24EA", "U+24F5", "U+24F6", "U+24F7", "U+24F8", "U+24F9",
     "U+24FA", "U+24FB", "U+24FC", "U+24FD", "U+24FF", "U+2776", "U+2777",
     "U+2778", "U+2779", "U+277A", "U+277B", "U+277C", "U+277D", "U+277E",
     "U+2780", "U+2781", "U+2782", "U+2783", "U+2784", "U+2785", "U+2786",
     "U+2787", "U+2788", "U+278A", "U+278B", "U+278C", "U+278D", "U+278E",
     "U+278F", "U+2790", "U+2791", "U+2792", "U+10A40", "U+10A41", "U+10A42",
     "U+10A43", "U+10E60", "U+10E61", "U+10E62", "U+10E63", "U+10E64",
     "U+10E65", "U+10E66", "U+10E67", "U+10E68", "U+11052", "U+11053",
     "U+11054", "U+11055", "U+11056", "U+11057", "U+11058", "U+11059",
     "U+1105A", "U+1F100", "U+1F101", "U+1F102", "U+1F103", "U+1F104",
     "U+1F105", "U+1F106", "U+1F107", "U+1F108", "U+1F109", "U+1F10A"}

\* Characters str.isdigit() accepts.
Digits == DecimalDigits \cup OtherDigits

\* s[i:] for a 0-based i.
Drop(s, n) == SubSeq(s, n + 1, Len(s))

\* s.startswith(p)
StartsWith(s, p) == Len(p) <= Len(s) /\ SubSeq(s, 1, Len(p)) = p

\* s.isdigit()
IsDigitStr(s) == s # <<>> /\ \A i \in 1..Len(s) : s[i] \in Digits

\* s.replace(old, ''): every non-overlapping occurrence, left to right.
RECURSIVE Replace(_, _)
Replace(s, old) ==
    IF s = <<>> THEN <<>>
    ELSE IF StartsWith(s, old) THEN Replace(Drop(s, Len(old)), old)
    ELSE <<Head(s)>> \o Replace(Tail(s), old)

\* Index of the first c in s, 0 when there is none.
Find(s, c) ==
    IF \E i \in 1..Len(s) : s[i] = c
    THEN CHOOSE i \in 1..Len(s) : s[i] = c /\ \A j \in 1..(i - 1) : s[j] # c
    ELSE 0

\* s.split(c)
RECURSIVE Split(_, _)
Split(s, c) ==
    IF Find(s, c) = 0 THEN <<s>>
    ELSE <<SubSeq(s, 1, Find(s, c) - 1)>> \o Split(Drop(s, Find(s, c)), c)

\* s.split(c, 1)
SplitOnce(s, c) ==
    IF Find(s, c) = 0 THEN <<s>>
    ELSE <<SubSeq(s, 1, Find(s, c) - 1), Drop(s, Find(s, c))>>

RECURSIVE LStrip(_)
LStrip(s) == IF s # <<>> /\ Head(s) \in Whitespace THEN LStrip(Tail(s)) ELSE s

RECURSIVE RStrip(_)
RStrip(s) ==
    IF s # <<>> /\ s[Len(s)] \in Whitespace
    THEN RStrip(SubSeq(s, 1, Len(s) - 1)) ELSE s

\* A strip() that was left out: the pair is used as written.
NoStrip(s) == s

\* s.strip()
Strip(s) == RStrip(LStrip(s))

\* sep.join(parts)
RECURSIVE Join(_, _)
Join(parts, sep) ==
    IF parts = <<>> THEN <<>>
    ELSE IF Len(parts) = 1 THEN parts[1]
    ELSE parts[1] \o sep \o Join(Tail(parts), sep)

\* k in d
HasKey(d, k) == \E i \in 1..Len(d) : d[i][1] = k

\* d[k] for a key that is present
Lookup(d, k) == d[CHOOSE i \in 1..Len(d) : d[i][1] = k][2]

\* d.get(k, default)
Get(d, k, default) == IF HasKey(d, k) THEN Lookup(d, k) ELSE default

\* d[k] = v: an existing key keeps its place, a new key goes last.
DictSet(d, k, v) ==
    IF HasKey(d, k)
    THEN [i \in 1..Len(d) |-> IF d[i][1] = k THEN <<k, v>> ELSE d[i]]
    ELSE Append(d, <<k, v>>)

\* The items of a dict as a set: dict equality ignores insertion order.
Items(d) == {d[i] : i \in 1..Len(d)}

(***************************************************************************)
(* parse_cookies                                                           *)
(***************************************************************************)
\* The loop of parse_cookies over the remaining pairs: `key, value =
\* pair.strip().split('=', 1)` raises ValueError when the pair holds no '='.
RECURSIVE CookieLoop(_, _)
CookieLoop(pairs, cookies) ==
    IF pairs = <<>> THEN [raised |-> FALSE, cookies |-> cookies]
    ELSE LET kv == SplitOnce(Strip(Head(pairs)), "=")
         IN  IF Len(kv) # 2 THEN [raised |-> TRUE, cookies |-> cookies]
             ELSE CookieLoop(Tail(pairs), DictSet(cookies, kv[1], kv[2]))

parse_cookies(cookie_string) ==
    IF cookie_string = <<>> THEN [raised |-> FALSE, cookies |-> <<>>]
    ELSE CookieLoop(Split(cookie_string, ";"), <<>>)

(***************************************************************************)
(* extract_video_id                                                        *)
(***************************************************************************)
S_video == <<"v", "i", "d", "e", "o">>
S_video_ext == <<"v", "i", "d", "e", "o", "_", "e", "x", "t">>
S_php_oid == <<"p", "h", "p", "?", "o", "i", "d", "=">>
S_and_id == <<"&", "i", "d", "=">>

\* The literal lit stands in s at position i (1-based).
At(s, i, lit) ==
    /\ i >= 1
    /\ i + Len(lit) - 1 <= Len(s)
    /\ SubSeq(s, i, i + Len(lit) - 1) = lit

\* Length of the longest run of \d characters of s that starts at position i.
RECURSIVE DigitRun(_, _)
DigitRun(s, i) ==
    IF i >= 1 /\ i <= Len(s) /\ s[i] \in DecimalDigits
    THEN 1 + DigitRun(s, i + 1)
    ELSE 0

\* A match of r'video(-?\d+_\d+)' that starts at position i, with its group.
\* Each \d+ is greedy and is followed by a non-digit of the pattern, so it
\* takes the whole run of digits.
StdAt(s, i) ==
    LET a == i + Len(S_video)
        b == IF a <= Len(s) /\ s[a] = "-" THEN a + 1 ELSE a
        n1 == DigitRun(s, b)
        u == b + n1
        n2 == DigitRun(s, u + 1)
        ok == At(s, i, S_video) /\ n1 > 0 /\ At(s, u, <<"_">>) /\ n2 > 0
    IN  [ok |-> ok, groups |-> IF ok THEN <<SubSeq(s, a, u + n2)>> ELSE <<>>]

\* A match of r'video_ext.php\?oid=(-?\d+)&id=(\d+)' that starts at position
\* i, with its groups.  The '.' of the pattern is not escaped: it matches any
\* character but a newline.
ExtAt(s, i) ==
    LET a == i + Len(S_video_ext)
        p == a + 1
        b == p + Len(S_php_oid)
        c == IF b <= Len(s) /\ s[b] = "-" THEN b + 1 ELSE b
        n1 == DigitRun(s, c)
        u == c + n1
        e == u + Len(S_and_id)
        n2 == DigitRun(s, e)
        ok == /\ At(s, i, S_video_ext)
              /\ a <= Len(s) /\ s[a] # "\n"
              /\ At(s, p, S_php_oid)
              /\ n1 > 0
              /\ At(s, u, S_and_id)
              /\ n2 > 0
    IN  [ok |-> ok,
         groups |-> IF ok THEN <<SubSeq(s, b, u - 1), SubSeq(s, e, e + n2 - 1)>>
                    ELSE <<>>]

\* re.search(patterns[0], url): the match at the leftmost position that has
\* one.
SearchStd(s) ==
    IF \E i \in 1..Len(s) : StdAt(s, i).ok
    THEN StdAt(s, CHOOSE i \in 1..Len(s) :
                      /\ StdAt(s, i).ok
                      /\ \A j \in 1..(i - 1) : ~StdAt(s, j).ok)
    ELSE [ok |-> FALSE, groups |-> <<>>]

\* re.search(patterns[1], url)
SearchExt(s) ==
    IF \E i \in 1..Len(s) : ExtAt(s, i).ok
    THEN ExtAt(s, CHOOSE i \in 1..Len(s) :
                      /\ ExtAt(s, i).ok
                      /\ \A j \in 1..(i - 1) : ~ExtAt(s, j).ok)
    ELSE [ok |-> FALSE, groups |-> <<>>]

\* The value returned for a match: one group as it is, two joined by '_'.
IdOf(match) ==
    IF Len(match.groups) = 1 THEN match.groups[1]
    ELSE match.groups[1] \o <<"_">> \o match.groups[2]

extract_video_id(url) ==
    IF SearchStd(url).ok THEN IdOf(SearchStd(url))
    ELSE IF SearchExt(url).ok THEN IdOf(SearchExt(url))
    ELSE None

(***************************************************************************)
(* Decoded JSON: <<"null">>, <<"bool", b>>, <<"num", n>>, <<"str", chars>>,*)
(* <<"list", elements>>, <<"dict", items>>.                                *)
(***************************************************************************)
JNull == <<"null">>
JBool(b) == <<"bool", b>>
JNum(n) == <<"num", n>>
JStr(s) == <<"str", s>>
JList(xs) == <<"list", xs>>
JDict(items) == <<"dict", items>>

IsDict(j) == j[1] = "dict"

\* bool(j)
Truthy(j) ==
    CASE j[1] = "null" -> FALSE
      [] j[1] = "bool" -> j[2]
      [] j[1] = "num" -> j[2] # 0
      [] OTHER -> j[2] # <<>>

\* len(j) and `for x in j` are defined for str, list and dict only.
Sized(j) == j[1] \in {"str", "list", "dict"}

\* The values `for item in j` yields: the elements of a list, the keys of a
\* dict, the characters of a str.
IterItems(j) ==
    CASE j[1] = "list" -> j[2]
      [] j[1] = "dict" -> [i \in 1..Len(j[2]) |-> JStr(j[2][i][1])]
      [] OTHER -> [i \in 1..Len(j[2]) |-> JStr(<<j[2][i]>>)]

\* j[n] for an int n (0-based) is defined for a list or str longer than n;
\* a dict decoded from JSON has no int key.
Indexable(j, n) == j[1] \in {"str", "list"} /\ Len(j[2]) > n
Index(j, n) == IF j[1] = "list" THEN j[2][n + 1] ELSE JStr(<<j[2][n + 1]>>)

K_payload == <<"p", "a", "y", "l", "o", "a", "d">>
K_player == <<"p", "l", "a", "y", "e", "r">>
K_type == <<"t", "y", "p", "e">>
K_params == <<"p", "a", "r", "a", "m", "s">>
K_hls == <<"h", "l", "s">>
K_md_title == <<"m", "d", "_", "t", "i", "t", "l", "e">>
K_md_author == <<"m", "d", "_", "a", "u", "t", "h", "o", "r">>
K_duration == <<"d", "u", "r", "a", "t", "i", "o", "n">>
S_vk == <<"v", "k">>
S_url == <<"u", "r", "l">>
S_cache == <<"c", "a", "c", "h", "e">>
S_mp4_ == <<"m", "p", "4", "_">>
S_Untitled == <<"U", "n", "t", "i", "t", "l", "e", "d">>

(***************************************************************************)
(* get_file_size                                                           *)
(***************************************************************************)
\* An ok that takes only the server errors for failures.
OkBelow500(status) == status < 500

\* requests.Response.ok: raise_for_status() raises for 400 <= status < 600.
Ok(status) == ~(400 <= status /\ status < 600)

\* What session.head(url) can do: raise, or return a response with a status
\* and, possibly, a content-length header.
HeadResponses ==
    {<<"raise">>,
     <<"response", [status |-> 200, content_length |-> <<"header", 1536>>]>>,
     <<"response", [status |-> 200, content_length |-> None]>>,
     <<"response", [status |-> 404, content_length |-> <<"header", 1536>>]>>}

get_file_size(head) ==
    IF head[1] = "raise" THEN 0
    ELSE IF ~Ok(head[2].status) THEN 0
    ELSE IF head[2].content_length = None THEN 0
    ELSE head[2].content_length[2]

(***************************************************************************)
(* parse_video_data                                                        *)
(*                                                                         *)
(* The result is a record: ret is the returned value (None or <<"info",    *)
(* video_info>>), error says whether the except branch ran (st.error), and *)
(* heads lists the URLs handed to session.head, in order.  heads_in holds  *)
(* the responses the successive HEAD calls receive.                        *)
(***************************************************************************)
NoData == [ret |-> None, error |-> FALSE, heads |-> <<>>]
Caught == [ret |-> None, error |-> TRUE, heads |-> <<>>]

\* quality = key.replace('url', '').replace('cache', '')
QualityOf(key) == Replace(Replace(key, S_url), S_cache)

\* The key passes both tests of the loop and is probed.
IsSourceKey(key) ==
    /\ StartsWith(key, S_url) \/ StartsWith(key, S_cache)
    /\ IsDigitStr(QualityOf(key))

\* A loop that probes a quality label only the first time it comes up.
RECURSIVE SourceLoopOnce(_, _, _, _, _)
SourceLoopOnce(params, i, sources, heads, heads_in) ==
    IF i > Len(params) THEN [sources |-> sources, heads |-> heads]
    ELSE LET key == params[i][1]
             url == params[i][2]
             size == get_file_size(heads_in[Len(heads) + 1])
         IN  IF IsSourceKey(key) /\ ~HasKey(sources, S_mp4_ \o QualityOf(key))
             THEN SourceLoopOnce(params, i + 1,
                      DictSet(sources, S_mp4_ \o QualityOf(key),
                              [url |-> url, size |-> size]),
                      Append(heads, url), heads_in)
             ELSE SourceLoopOnce(params, i + 1, sources, heads, heads_in)

\* The loop `for key in params` from the i-th item on.
RECURSIVE SourceLoop(_, _, _, _, _)
SourceLoop(params, i, sources, heads, heads_in) ==
    IF i > Len(params) THEN [sources |-> sources, heads |-> heads]
    ELSE LET key == params[i][1]
             url == params[i][2]
             size == get_file_size(heads_in[Len(heads) + 1])
         IN  IF IsSourceKey(key)
             THEN SourceLoop(params, i + 1,
                      DictSet(sources, S_mp4_ \o QualityOf(key),
                              [url |-> url, size |-> size]),
                      Append(heads, url), heads_in)
             ELSE SourceLoop(params, i + 1, sources, heads, heads_in)

\* if params.get('hls'): sources['hls'] = {'url': params['hls']}
WithHls(params, sources) ==
    IF Truthy(Get(params, K_hls, JNull))
    THEN DictSet(sources, K_hls, [url |-> Lookup(params, K_hls)])
    ELSE sources

\* From `params = player['params'][0]` on.  A params that is not a dict
\* raises before any HEAD: iterating a number or null raises; a list raises
\* at params[key] or at params.get; a str raises at params.get.
ParseParams(params, heads_in) ==
    IF ~IsDict(params) THEN Caught
    ELSE LET loop == SourceLoop(params[2], 1, <<>>, <<>>, heads_in)
         IN  [ret |-> <<"info",
                        [title |-> Get(params[2], K_md_title, JStr(S_Untitled)),
                         files |-> WithHls(params[2], loop.sources),
                         duration |-> Get(params[2], K_duration, JNum(0)),
                         author |-> Get(params[2], K_md_author, JStr(<<>>))]>>,
              error |-> FALSE,
              heads |-> loop.heads]

\* A ParsePlayer that checks for params before indexing it.
ParsePlayerChecked(player, heads_in) ==
    IF ~IsDict(player) THEN Caught
    ELSE IF Get(player[2], K_type, JNull) # JStr(S_vk) THEN NoData
    ELSE IF ~HasKey(player[2], K_params) THEN NoData
    ELSE IF ~Indexable(Lookup(player[2], K_params), 0) THEN NoData
    ELSE ParseParams(Index(Lookup(player[2], K_params), 0), heads_in)

\* From `player = video_data['player']` on.
ParsePlayer(player, heads_in) ==
    IF ~IsDict(player) THEN Caught                      \* player.get
    ELSE IF Get(player[2], K_type, JNull) # JStr(S_vk) THEN NoData
    ELSE IF ~HasKey(player[2], K_params) THEN Caught    \* player['params']
    ELSE IF ~Indexable(Lookup(player[2], K_params), 0) THEN Caught
    ELSE ParseParams(Index(Lookup(player[2], K_params), 0), heads_in)

\* isinstance(item, dict) and item.get('player')
HasPlayer(item) == IsDict(item) /\ Truthy(Get(item[2], K_player, JNull))

\* From `for item in payload[1]` on.
ParseItems(items, heads_in) ==
    IF \E i \in 1..Len(items) : HasPlayer(items[i])
    THEN LET first == CHOOSE i \in 1..Len(items) :
                          /\ HasPlayer(items[i])
                          /\ \A j \in 1..(i - 1) : ~HasPlayer(items[j])
         IN  ParsePlayer(Lookup(items[first][2], K_player), heads_in)
    ELSE NoData

parse_video_data(data, heads_in) ==
    IF ~IsDict(data) THEN Caught                        \* json_data.get
    ELSE LET payload == Get(data[2], K_payload, JList(<<>>))
         IN  IF ~Truthy(payload) THEN NoData
             ELSE IF ~Sized(payload) THEN Caught        \* len(payload)
             ELSE IF Len(payload[2]) < 2 THEN NoData
             ELSE IF ~Indexable(payload, 1) THEN Caught \* payload[1]
             ELSE IF ~Sized(Index(payload, 1)) THEN Caught
             ELSE ParseItems(IterItems(Index(payload, 1)), heads_in)

(***************************************************************************)
(* The page: one script run per user action.                               *)
(***************************************************************************)
NotCalled == <<"not called">>

M_NoVideoId == "Could not extract video ID from URL"
M_FetchFailed == "Failed to fetch video info"
M_BadResponse == "Could not parse server response"
M_ParseError == "Error parsing video data"
M_FetchError == "Error fetching video info"
M_Private == "No download links available. The video might be private or deleted."
M_TryCookies == "No download links available. If this is a private video, try adding your VK cookies above."
M_Saved == "Cookies saved successfully!"
M_Cleared == "Cookies cleared."
M_Uncaught == "uncaught ValueError"

\* Texts the user can paste into the cookie text area.
CookieInputs ==
    {<<>>,
     <<"a", "=", "b">>,
     <<"a", "=", "b", ";", " ", "c", "=", "d">>,
     <<"\t", "c", "=", "d", "\n">>,
     <<"a", "=", "b", ";">>,
     <<"a", "b">>}

\* Texts the user can enter as the video URL.
UrlInputs ==
    {<<>>,
     <<"x">>,
     S_video \o <<"_", "1">>,
     S_video \o <<"-", "1", "_", "2", "3">>,
     S_video \o <<"U+0663", "_", "U+0662">>,
     S_video_ext \o <<".">> \o S_php_oid \o <<"4">> \o S_and_id \o <<"5">>,
     S_video_ext \o <<"/">> \o S_php_oid \o <<"4">> \o S_and_id \o <<"5">>}

\* Statuses a response can carry.
Statuses == {200, 201, 404, 500}

U1 == JStr(<<"/", "a">>)
U2 == JStr(<<"/", "b">>)
U3 == JStr(<<"/", "h">>)
K_url240 == S_url \o <<"2", "4", "0">>
K_cache240 == S_cache \o <<"2", "4", "0">>
K_urlcache240 == S_url \o K_cache240

\* Player parameter mappings the platform can answer with.
ParamSamples ==
    {JDict(<<<<K_url240, U1>>, <<K_hls, U3>>>>),
     JDict(<<<<K_url240, U1>>, <<K_cache240, U2>>>>),
     JDict(<<<<K_urlcache240, U1>>>>),
     JDict(<<<<K_hls, U3>>>>),
     JDict(<<<<K_md_title, JStr(<<"T">>)>>, <<K_hls, JStr(<<>>)>>>>),
     JList(<<JStr(K_url240)>>),
     JNull}

\* Players: well-formed vk players, another type, params missing or empty,
\* a player that is no mapping.
PlayerSamples ==
    {JDict(<<<<K_type, JStr(S_vk)>>, <<K_params, JList(<<p>>)>>>>) :
        p \in ParamSamples}
    \cup {JDict(<<<<K_type, JStr(<<"y", "t">>)>>,
                  <<K_params, JList(<<JDict(<<<<K_url240, U1>>>>)>>)>>>>),
          JDict(<<<<K_params, JList(<<JDict(<<<<K_url240, U1>>>>)>>)>>>>),
          JDict(<<<<K_type, JStr(S_vk)>>>>),
          JDict(<<<<K_type, JStr(S_vk)>>, <<K_params, JList(<<>>)>>>>),
          JDict(<<<<K_type, JStr(S_vk)>>, <<K_params, JNull>>>>),
          JStr(<<"x">>)}

PayloadOf(second) == JDict(<<<<K_payload, JList(<<JNum(0), second>>)>>>>)

\* Decoded bodies the metadata endpoint can answer with.
JsonSamples ==
    {PayloadOf(JList(<<JNum(5), JDict(<<<<K_player, pl>>>>)>>)) :
        pl \in PlayerSamples}
    \cup {PayloadOf(JList(<<JDict(<<<<K_player, JNull>>>>),
                            JDict(<<<<K_type, JStr(S_vk)>>>>)>>)),
          PayloadOf(JList(<<>>)),
          PayloadOf(JNum(7)),
          PayloadOf(JNull),
          PayloadOf(JStr(<<"a", "b">>)),
          JDict(<<<<K_payload, JList(<<JNum(0)>>)>>>>),
          JDict(<<<<K_payload, JNum(7)>>>>),
          JDict(<<<<K_payload,
                    JDict(<<<<<<"a">>, JNum(1)>>, <<<<"b">>, JNum(2)>>>>)>>>>),
          JDict(<<>>),
          JList(<<JNum(1), JNum(2)>>),
          JNull}

\* What session.post can do: raise, or return a response whose body is JSON
\* ("json"), HTML holding a <!json>...<!> block that decodes ("html_json") or
\* does not ("html_bad_json"), or none of these ("other").
PostBodies ==
    {<<"json", j>> : j \in JsonSamples}
    \cup {<<"html_json", PayloadOf(JList(<<>>))>>,
          <<"html_bad_json", JNull>>,
          <<"other", JNull>>}

PostResponses ==
    {<<"raise">>}
    \cup {<<"response", [status |-> st, body |-> b]>> :
             st \in Statuses, b \in PostBodies}

\* The video page, as far as the fallback reads it: the text of the title
\* element (None when neither class is found) and the "url<digits>":"..."
\* occurrences of its source, in order.
PageSamples ==
    {[title |-> t, urls |-> u] :
        t \in {None, <<" ", "T", "\n">>},
        u \in {<<>>,
               <<<<<<"3", "6", "0">>, <<"/", "\\", "/", "c">>>>>>,
               <<<<<<"3", "6", "0">>, <<"/", "c">>>>,
                 <<<<"7", "2", "0">>, <<"/", "d">>>>>>}}

GetResponses ==
    {<<"raise">>}
    \cup {<<"response", [status |-> st, page |-> pg]>> :
             st \in {200, 404}, pg \in PageSamples}

\* The responses the HEAD calls of one parse receive, in order.
HeadSequences == [1..MaxParams -> HeadResponses]

\* bool(st.session_state.vk_cookies)
CookiesStored(cookies) == cookies # None /\ cookies[2] # <<>>

\* The state of a run that has shown and requested nothing yet.
FreshRun ==
    /\ video_id' = None
    /\ json_data' = None
    /\ video_info' = None
    /\ requests' = <<>>
    /\ rendered' = <<>>
    /\ last_post' = None
    /\ last_get' = None
    /\ parser_ret' = NotCalled

\* Where the script goes after the cookie expander: `if video_url:`.
AfterExpander(url) == IF url # <<>> THEN "get_video_info" ELSE "idle"

\* The user enters a URL: the script reruns, the button is not clicked.
SubmitURL(url) ==
    /\ pc = "idle"
    /\ video_url' = url
    /\ FreshRun
    /\ messages' = <<>>
    /\ pc' = AfterExpander(url)
    /\ UNCHANGED <<vk_cookies, last_save, fnVars>>

\* The user clicks "Save Cookies" with cookie_input in the text area.  An
\* exception of parse_cookies is not caught: the run ends there.
SaveCookies(cookie_input) ==
    /\ pc = "idle"
    /\ last_save' = <<"save", cookie_input>>
    /\ FreshRun
    /\ IF cookie_input # <<>>
       THEN IF parse_cookies(cookie_input).raised
            THEN /\ vk_cookies' = vk_cookies
                 /\ messages' = <<M_Uncaught>>
                 /\ pc' = "idle"
            ELSE /\ vk_cookies' = <<"dict", parse_cookies(cookie_input).cookies>>
                 /\ messages' = <<M_Saved>>
                 /\ pc' = AfterExpander(video_url)
       ELSE /\ vk_cookies' = None
            /\ messages' = <<M_Cleared>>
            /\ pc' = AfterExpander(video_url)
    /\ UNCHANGED <<video_url, fnVars>>

\* get_video_info returns None after an error message.
Fail(message) ==
    /\ messages' = Append(messages, message)
    /\ video_info' = None
    /\ pc' = "render"

\* get_video_info up to the request: the session and the video id.
GetVideoId ==
    /\ pc = "get_video_info"
    /\ video_id' = extract_video_id(video_url)
    /\ IF extract_video_id(video_url) = None
       THEN Fail(M_NoVideoId)
       ELSE /\ pc' = "post"
            /\ UNCHANGED <<messages, video_info>>
    /\ UNCHANGED <<vk_cookies, video_url, json_data, requests, rendered,
                   last_post, last_get, parser_ret, last_save, fnVars>>

\* The POST to al_video.php and the decoding of its body.
PostVideo(resp) ==
    /\ pc = "post"
    /\ requests' = Append(requests, <<"POST", video_id>>)
    /\ last_post' = IF resp[1] = "raise" THEN resp
                    ELSE <<"status", resp[2].status>>
    /\ IF resp[1] = "raise" THEN Fail(M_FetchError) /\ UNCHANGED json_data
       ELSE IF ~Ok(resp[2].status)
            THEN Fail(M_FetchFailed) /\ UNCHANGED json_data
       ELSE IF resp[2].body[1] \in {"json", "html_json"}
            THEN /\ json_data' = resp[2].body[2]
                 /\ pc' = "parse"
                 /\ UNCHANGED <<messages, video_info>>
       ELSE IF resp[2].body[1] = "html_bad_json"
            THEN Fail(M_FetchError) /\ UNCHANGED json_data
       ELSE Fail(M_BadResponse) /\ UNCHANGED json_data
    /\ UNCHANGED <<vk_cookies, video_url, video_id, rendered, last_get,
                   parser_ret, last_save, fnVars>>

\* A test that also falls back when the record holds no source.
NeedsFallbackNoSources(ret) == ret = None \/ ret[2].files = <<>>

\* `if not video_info:` a returned record is a non-empty dict, hence truthy.
NeedsFallback(ret) == ret = None

\* video_info = parse_video_data(json_data, session)
ParseResponse(heads_in) ==
    /\ pc = "parse"
    /\ LET r == parse_video_data(json_data, heads_in)
       IN  /\ parser_ret' = r.ret
           /\ requests' = requests \o [i \in 1..Len(r.heads) |->
                                          <<"HEAD", r.heads[i]>>]
           /\ messages' = IF r.error THEN Append(messages, M_ParseError)
                          ELSE messages
           /\ video_info' = r.ret
           /\ pc' = IF NeedsFallback(r.ret) THEN "fallback" ELSE "render"
    /\ UNCHANGED <<vk_cookies, video_url, video_id, json_data, rendered,
                   last_post, last_get, last_save, fnVars>>

\* The fallback: the GET of the page, the stripped text of the title element,
\* the first "url<q>" of the text (re.search), probed.
Fallback(resp, head) ==
    /\ pc = "fallback"
    /\ last_get' = IF resp[1] = "raise" THEN resp
                   ELSE <<"status", resp[2].status>>
    /\ IF resp[1] = "raise"
       THEN /\ requests' = Append(requests, <<"GET", video_url>>)
            /\ Fail(M_FetchError)
       ELSE LET page == resp[2].page
                title == IF page.title = None
                         THEN <<"U", "n", "t", "i", "t", "l", "e", "d", " ",
                                "V", "i", "d", "e", "o">>
                         ELSE Strip(page.title)
                quality == page.urls[1][1]
                url == JStr(Replace(page.urls[1][2], <<"\\">>))
            IN  /\ requests' =
                       IF page.urls # <<>>
                       THEN requests \o <<<<"GET", video_url>>, <<"HEAD", url>>>>
                       ELSE Append(requests, <<"GET", video_url>>)
                /\ video_info' =
                       <<"info",
                         [title |-> JStr(title),
                          files |->
                              IF page.urls # <<>>
                              THEN <<<<S_mp4_ \o quality,
                                       [url |-> url,
                                        size |-> get_file_size(head)]>>>>
                              ELSE <<>>]>>
                /\ pc' = "render"
                /\ UNCHANGED messages
    /\ UNCHANGED <<vk_cookies, video_url, video_id, json_data, rendered,
                   last_post, parser_ret, last_save, fnVars>>

\* available_qualities: the labels of the files other than 'hls'.
AvailableQualities(files) ==
    SelectSeq([i \in 1..Len(files) |-> files[i][1]], LAMBDA k : k # K_hls)

\* The message shown when no quality is available.
GuidanceSwapped(cookies) ==
    IF CookiesStored(cookies) THEN M_TryCookies ELSE M_Private

Guidance(cookies) ==
    IF CookiesStored(cookies) THEN M_Private ELSE M_TryCookies

\* `if video_info:` and the rest of the script.
Render ==
    /\ pc = "render"
    /\ pc' = "idle"
    /\ IF video_info = None
       THEN UNCHANGED <<rendered, messages>>
       ELSE IF AvailableQualities(video_info[2].files) # <<>>
            THEN /\ rendered' = AvailableQualities(video_info[2].files)
                 /\ UNCHANGED messages
            ELSE /\ messages' = Append(messages, Guidance(vk_cookies))
                 /\ UNCHANGED rendered
    /\ UNCHANGED <<vk_cookies, video_url, video_id, json_data, video_info,
                   requests, last_post, last_get, parser_ret, last_save,
                   fnVars>>

\* The state after the module ran once with empty inputs.
AppIdle ==
    /\ vk_cookies = None
    /\ video_url = <<>>
    /\ pc = "idle"
    /\ video_id = None
    /\ json_data = None
    /\ video_info = None
    /\ requests = <<>>
    /\ messages = <<>>
    /\ rendered = <<>>
    /\ last_post = None
    /\ last_get = None
    /\ parser_ret = NotCalled
    /\ last_save = None

Init == AppIdle /\ fn_in = <<>> /\ fn_out = Pending

Next ==
    \/ \E url \in UrlInputs : SubmitURL(url)
    \/ \E cookie_input \in CookieInputs : SaveCookies(cookie_input)
    \/ GetVideoId
    \/ \E resp \in PostResponses : PostVideo(resp)
    \/ \E heads_in \in HeadSequences : ParseResponse(heads_in)
    \/ \E resp \in GetResponses, head \in HeadResponses : Fallback(resp, head)
    \/ Render

Spec == Init /\ [][Next]_vars

(***************************************************************************)
(* parse_cookies on its own: the join/parse round trip.                    *)
(***************************************************************************)
\* "; ".join(k + "=" + v for k, v in mapping.items())
CookieJoin(m) ==
    Join([i \in 1..Len(m) |-> m[i][1] \o <<"=">> \o m[i][2]], <<";", " ">>)

\* Characters of the drawn cookie names and values: neither ';' nor '='.
CookieChars == {"a", " ", "\t"}

\* The pairs whose name and value hold c characters together.
PairsOfSize(c) ==
    UNION {([1..k -> CookieChars]) \X ([1..(c - k) -> CookieChars]) : k \in 0..c}

\* The sequences of pairs whose join, after sep characters already spent on
\* a separator, is at most budget long: a pair costs its characters and one
\* for '=', every pair but the first two more for "; ".
RECURSIVE PairLists(_, _)
PairLists(budget, sep) ==
    {<<>>} \cup
    UNION {LET first == PairsOfSize(c)
               others == PairLists(budget - sep - c - 1, 2)
           IN  {<<p>> \o rest : p \in first, rest \in others} :
           c \in 0..(budget - sep - 1)}

\* The mappings whose join is at most len long.
CookieMappings(len) ==
    {m \in PairLists(len, 0) :
        \A i, j \in 1..Len(m) : m[i][1] = m[j][1] => i = j}

InitCookies == AppIdle /\ fn_in \in CookieMappings(MaxCookieLen) /\ fn_out = Pending

CallParseCookies ==
    /\ fn_out = Pending
    /\ fn_out' = <<"returned", parse_cookies(CookieJoin(fn_in))>>
    /\ UNCHANGED <<appVars, fn_in>>

NextCookies == CallParseCookies

SpecCookies == InitCookies /\ [][NextCookies]_vars

Returned == fn_out # Pending
Result == fn_out[2]

\* No key of the mapping starts with whitespace and no value ends with it.
StripSafe(m) ==
    \A i \in 1..Len(m) :
        /\ (m[i][1] # <<>> => m[i][1][1] \notin Whitespace)
        /\ (m[i][2] # <<>> => m[i][2][Len(m[i][2])] \notin Whitespace)

\* C4 as stated: for every mapping without ';' and '=' in its keys and
\* values, parse_cookies(join(mapping)) returns exactly the mapping and does
\* not raise.
C4_RoundTripAnyMapping ==
    Returned => ~Result.raised /\ Items(Result.cookies) = Items(fn_in)

\* C4 amended: parse_cookies never raises on a joined mapping, and returns
\* exactly the mapping whenever no key starts with whitespace and no value
\* ends with whitespace (strip() removes both).
C4_RoundTripStripSafe ==
    Returned =>
        /\ ~Result.raised
        /\ (StripSafe(fn_in) => Items(Result.cookies) = Items(fn_in))

\* Two pairs, one with a value starting with a space and one with an empty
\* key and an empty value, parsed back unchanged.
C4_Witness ==
    /\ Returned
    /\ Len(fn_in) = 2
    /\ StripSafe(fn_in)
    /\ \E i \in 1..2 : fn_in[i] = <<<<"a">>, <<" ", "a">>>>
    /\ \E i \in 1..2 : fn_in[i] = <<<<>>, <<>>>>
    /\ ~Result.raised
    /\ Items(Result.cookies) = Items(fn_in)

(***************************************************************************)
(* parse_video_data on its own: a vk player with drawn parameters.         *)
(***************************************************************************)
\* Keys the drawn parameter mappings take their keys from.
ParamKeys ==
    {K_url240, K_cache240, K_urlcache240,
     S_url \o <<"7", "2", "0">>,
     K_url240 \o S_url,
     S_cache \o K_url240,
     S_url \o <<"x">>,
     S_url \o <<"U+00B2">>,
     S_url,
     <<"a">> \o K_url240,
     K_md_title,
     K_hls}

\* The value of a drawn entry: a URL of its own for every key, and for 'hls'
\* also the empty string.
ParamEntries ==
    {<<k, JStr(<<"/">> \o k)>> : k \in ParamKeys} \cup {<<K_hls, JStr(<<>>)>>}

\* The mappings of at most max entries.
ParamMappings(max) ==
    UNION {{m \in [1..n -> ParamEntries] :
               \A i, j \in 1..n : m[i][1] = m[j][1] => i = j} :
           n \in 0..max}

\* The decoded body whose payload[1] holds one vk player with these params.
VkPayload(params) ==
    PayloadOf(JList(<<JDict(<<<<K_player,
        JDict(<<<<K_type, JStr(S_vk)>>,
                <<K_params, JList(<<JDict(params)>>)>>>>)>>>>)>>))

InitParser == AppIdle /\ fn_in \in ParamMappings(MaxParams) /\ fn_out = Pending

CallParseVideoData(heads_in) ==
    /\ fn_out = Pending
    /\ fn_out' = <<"returned", parse_video_data(VkPayload(fn_in), heads_in)>>
    /\ UNCHANGED <<appVars, fn_in>>

NextParser == \E heads_in \in HeadSequences : CallParseVideoData(heads_in)

SpecParser == InitParser /\ [][NextParser]_vars

(***************************************************************************)
(* Properties.                                                             *)
(***************************************************************************)
\* get_video_info has returned (the run is rendering or over).
Over == pc \in {"render", "idle"}
\* The metadata POST succeeded and its body decoded.
Decoded == json_data # None
NumberOf(method) ==
    Cardinality({i \in 1..Len(requests) : requests[i][1] = method})
Shown(message) == \E i \in 1..Len(messages) : messages[i] = message
Labels(files) == {files[i][1] : i \in 1..Len(files)}
IsInfo(ret) == ret[1] = "info"

\* C1 as stated: whenever the POST succeeded and decoded and the parser
\* yielded no sources (no data, or a record whose source set is empty), the
\* fallback GET is issued before get_video_info returns.
C1_FallbackWheneverNoSources ==
    (Over /\ Decoded /\ (parser_ret = None
                         \/ (IsInfo(parser_ret) /\ parser_ret[2].files = <<>>)))
        => NumberOf("GET") = 1

\* C1 amended: once the POST succeeded and decoded, the fallback runs exactly
\* when the parser returned no data: then the GET of the page follows the
\* POST directly and at most one HEAD follows it; when the parser returned a
\* record, also one with an empty source set, no GET is issued and that
\* record is what get_video_info returns.
C1_FallbackIffNoData ==
    (Over /\ Decoded) =>
        /\ (parser_ret = None) <=> (NumberOf("GET") = 1)
        /\ parser_ret = None =>
               /\ requests[1][1] = "POST"
               /\ requests[2] = <<"GET", video_url>>
               /\ Len(requests) <= 3
               /\ Len(requests) = 3 => requests[3][1] = "HEAD"
        /\ IsInfo(parser_ret) => video_info = parser_ret

\* The parser returned no data and the fallback found and probed a source.
C1_Witness ==
    /\ pc = "idle"
    /\ Decoded
    /\ parser_ret = None
    /\ Len(requests) = 3
    /\ requests[2][1] = "GET"
    /\ requests[3][1] = "HEAD"
    /\ IsInfo(video_info)
    /\ Len(video_info[2].files) = 1

\* The POST was answered with this status.
PostStatus(st) == last_post = <<"status", st>>
\* The fetch failed at the POST: the message, no result, nothing else called.
FailedAtPost ==
    /\ Over
    /\ messages[Len(messages)] = M_FetchFailed
    /\ video_info = None
    /\ parser_ret = NotCalled
    /\ json_data = None
    /\ NumberOf("GET") = 0
    /\ NumberOf("HEAD") = 0
    /\ rendered = <<>>

\* C2 as stated: for every status other than 200 of the metadata POST,
\* get_video_info ends in a fetch failure, calls neither the parser nor the
\* fallback, and nothing is rendered.
C2_Non200IsFailure ==
    \A st \in Statuses \ {200} : PostStatus(st) => FailedAtPost

\* C2 amended: for every status from 400 to 599 of the metadata POST (the
\* statuses for which response.ok is false), get_video_info ends in a fetch
\* failure, calls neither the parser nor the fallback, and nothing is
\* rendered.
C2_ErrorStatusIsFailure ==
    \A st \in Statuses : (PostStatus(st) /\ st >= 400 /\ st < 600) => FailedAtPost

\* A run that ended after a 404 of the POST.
C2_Witness ==
    /\ pc = "idle"
    /\ PostStatus(404)
    /\ Shown(M_FetchFailed)
    /\ requests = <<<<"POST", video_id>>>>

\* C3: a non-success status of the fallback GET is a fetch failure:
\* get_video_info returns no VideoMetadata.
C3_PageErrorIsFailure ==
    (Over /\ last_get # None /\ last_get[1] = "status" /\ last_get[2] >= 400)
        => video_info = None

\* The guidance messages shown by the run, in order.
GuidanceShown ==
    SelectSeq(messages, LAMBDA m : m \in {M_Private, M_TryCookies})

\* C5: after a submission whose fetch succeeded with no source, exactly one
\* guidance message is shown: the "try adding your VK cookies" warning when
\* no credentials are stored, the "private or deleted" error when they are;
\* when a non-hls source is rendered, neither is shown.
C5_GuidanceByCredentials ==
    (pc = "idle" /\ IsInfo(video_info)) =>
        /\ video_info[2].files = <<>> =>
               GuidanceShown = <<IF vk_cookies = None THEN M_TryCookies
                                 ELSE M_Private>>
        /\ rendered # <<>> => GuidanceShown = <<>>
        /\ Labels(video_info[2].files) \ {K_hls} # {} => rendered # <<>>

\* A fetch with stored credentials that found no source.
C5_Witness ==
    /\ pc = "idle"
    /\ IsInfo(video_info)
    /\ video_info[2].files = <<>>
    /\ vk_cookies # None
    /\ GuidanceShown = <<M_Private>>

\* w is a number as the URL shapes write one: decimal digits, one at least.
IsNumber(w) == w # <<>> /\ \A i \in 1..Len(w) : w[i] \in DecimalDigits

\* w is sign digits, the sign optional.
IsSignedNumber(w) ==
    IsNumber(w) \/ (w # <<>> /\ w[1] = "-" /\ IsNumber(Tail(w)))

\* w is video<owner>_<item>.
IsStandardWord(w) ==
    \E k \in 1..Len(w) :
        /\ w[k] = "_"
        /\ IsNumber(Drop(w, k))
        /\ StartsWith(w, S_video)
        /\ k > Len(S_video)
        /\ IsSignedNumber(SubSeq(w, Len(S_video) + 1, k - 1))

\* w is video_ext.php?oid=<o>&id=<i>.
IsLegacyWord(w) ==
    LET head == S_video_ext \o <<".">> \o S_php_oid
    IN  \E k \in 1..Len(w) :
            /\ At(w, k, S_and_id)
            /\ IsNumber(Drop(w, k + Len(S_and_id) - 1))
            /\ StartsWith(w, head)
            /\ k > Len(head)
            /\ IsSignedNumber(SubSeq(w, Len(head) + 1, k - 1))

\* Some substring of s is a word of the shape.
HasStandardShape(s) ==
    \E i \in 1..Len(s) : \E j \in i..Len(s) : IsStandardWord(SubSeq(s, i, j))
HasLegacyShape(s) ==
    \E i \in 1..Len(s) : \E j \in i..Len(s) : IsLegacyWord(SubSeq(s, i, j))

\* C6: for a URL of neither shape, extract_video_id returns "not found" and
\* get_video_info shows the error, returns no VideoMetadata and sends no
\* request.
C6_NoShapeIsInputError ==
    (/\ pc # "get_video_info"
     /\ video_url # <<>>
     /\ ~Shown(M_Uncaught)
     /\ ~HasStandardShape(video_url)
     /\ ~HasLegacyShape(video_url))
        => /\ video_id = None
           /\ video_info = None
           /\ Shown(M_NoVideoId)
           /\ requests = <<>>


\* w is video_ext<any character>php?oid=<o>&id=<i>: what the second pattern,
\* whose '.' is not escaped, takes for the legacy shape.
IsLegacyWordAnyDot(w) ==
    LET n == Len(S_video_ext) + 1 + Len(S_php_oid)
    IN  \E k \in 1..Len(w) :
            /\ At(w, k, S_and_id)
            /\ IsNumber(Drop(w, k + Len(S_and_id) - 1))
            /\ StartsWith(w, S_video_ext)
            /\ At(w, Len(S_video_ext) + 2, S_php_oid)
            /\ w[Len(S_video_ext) + 1] # "\n"
            /\ k > n
            /\ IsSignedNumber(SubSeq(w, n + 1, k - 1))

HasLegacyShapeAnyDot(s) ==
    \E i \in 1..Len(s) : \E j \in i..Len(s) :
        IsLegacyWordAnyDot(SubSeq(s, i, j))

\* C6, for the URLs the two patterns do not match: extract_video_id returns
\* "not found" and get_video_info shows the error, returns no VideoMetadata
\* and sends no request.
C6_UnmatchedIsInputError ==
    (/\ pc # "get_video_info"
     /\ video_url # <<>>
     /\ ~Shown(M_Uncaught)
     /\ ~HasStandardShape(video_url)
     /\ ~HasLegacyShapeAnyDot(video_url))
        => /\ video_id = None
           /\ video_info = None
           /\ messages[Len(messages)] = M_NoVideoId
           /\ requests = <<>>
           /\ rendered = <<>>

\* The quality of a key with only its prefix stripped.
PrefixQuality(key) ==
    IF StartsWith(key, S_url) THEN Drop(key, Len(S_url))
    ELSE IF StartsWith(key, S_cache) THEN Drop(key, Len(S_cache))
    ELSE <<>>

\* The labels C7 names for a parameter mapping.
PrefixLabels(params) ==
    {S_mp4_ \o PrefixQuality(params[i][1]) :
        i \in {n \in 1..Len(params) : IsDigitStr(PrefixQuality(params[n][1]))}}
    \cup (IF Truthy(Get(params, K_hls, JNull)) THEN {K_hls} ELSE {})

\* C7: for a vk player, the sources are exactly one mp4_<q> entry, with the
\* value as URL and a size, per key that is 'url' or 'cache' followed by the
\* digits q, plus 'hls' without a size iff the hls parameter is truthy.
C7_SourcesAreThePrefixedKeys ==
    Returned =>
        /\ IsInfo(Result.ret)
        /\ Labels(Result.ret[2].files) = PrefixLabels(fn_in)
        /\ \A i \in 1..Len(Result.ret[2].files) :
               LET label == Result.ret[2].files[i][1]
                   entry == Result.ret[2].files[i][2]
               IN  IF label = K_hls
                   THEN entry = [url |-> Lookup(fn_in, K_hls)]
                   ELSE /\ DOMAIN entry = {"url", "size"}
                        /\ \E n \in 1..Len(fn_in) :
                               /\ S_mp4_ \o PrefixQuality(fn_in[n][1]) = label
                               /\ entry.url = fn_in[n][2]

\* The kinds of structural mismatch C8 lists, told from the decoded value.
PayloadIn(d) == Lookup(d[2], K_payload)
SecondIn(d) == PayloadIn(d)[2][2]
PlayersIn(d) ==
    SelectSeq(SecondIn(d)[2],
              LAMBDA item : IsDict(item) /\ Truthy(Get(item[2], K_player, JNull)))
PlayerIn(d) == Lookup(PlayersIn(d)[1][2], K_player)

NotAMapping(d) == ~IsDict(d)
PayloadMissingOrShort(d) ==
    /\ IsDict(d)
    /\ \/ ~HasKey(d[2], K_payload)
       \/ PayloadIn(d)[1] = "list" /\ Len(PayloadIn(d)[2]) < 2
HasSecond(d) ==
    IsDict(d) /\ HasKey(d[2], K_payload) /\ PayloadIn(d)[1] = "list"
        /\ Len(PayloadIn(d)[2]) >= 2
SecondNotIterable(d) == HasSecond(d) /\ SecondIn(d)[1] \in {"null", "num", "bool"}
SecondIsText(d) == HasSecond(d) /\ SecondIn(d)[1] = "str"
HasItems(d) == HasSecond(d) /\ SecondIn(d)[1] = "list"
NoPlayer(d) == HasItems(d) /\ PlayersIn(d) = <<>>
HasPlayerMapping(d) == HasItems(d) /\ PlayersIn(d) # <<>> /\ IsDict(PlayerIn(d))
OtherType(d) ==
    HasPlayerMapping(d) /\ Get(PlayerIn(d)[2], K_type, JNull) # JStr(S_vk)
NoParams(d) ==
    /\ HasPlayerMapping(d)
    /\ Get(PlayerIn(d)[2], K_type, JNull) = JStr(S_vk)
    /\ \/ ~HasKey(PlayerIn(d)[2], K_params)
       \/ Lookup(PlayerIn(d)[2], K_params) \in {JNull, JList(<<>>)}

\* The mismatches that go unnoticed by the parser's own checks and raise.
Raising(d) == NotAMapping(d) \/ SecondNotIterable(d) \/ NoParams(d)
\* The mismatches the parser's own checks catch.
Checked(d) ==
    PayloadMissingOrShort(d) \/ SecondIsText(d) \/ NoPlayer(d) \/ OtherType(d)

\* parse_video_data has returned to get_video_info.
Parsed == Decoded /\ pc \in {"fallback", "render", "idle"}

\* C8 as stated: every structural mismatch is absorbed: the parser returns
\* no data, no error message is shown for it, and get_video_info goes on
\* with the fallback.
C8_MismatchIsSilent ==
    (Parsed /\ (Raising(json_data) \/ Checked(json_data))) =>
        /\ parser_ret = None
        /\ ~Shown(M_ParseError)
        /\ Over => NumberOf("GET") = 1

\* C8 amended: every structural mismatch is absorbed: the parser returns no
\* data and get_video_info goes on with the fallback.  No message is shown
\* when the payload is missing or short, payload[1] is a string, no item has
\* a truthy player or the type is not 'vk'; the "Error parsing video data"
\* message is shown when the decoded value is no mapping, payload[1] is a
\* number or null, or params is missing or empty.
C8_MismatchIsAbsorbed ==
    (Parsed /\ (Raising(json_data) \/ Checked(json_data))) =>
        /\ parser_ret = None
        /\ Shown(M_ParseError) <=> Raising(json_data)
        /\ Over => NumberOf("GET") = 1

\* A vk player without params: the message was shown and the fallback
\* produced the result.
C8_Witness ==
    /\ pc = "idle"
    /\ Decoded
    /\ NoParams(json_data)
    /\ Shown(M_ParseError)
    /\ NumberOf("GET") = 1
    /\ IsInfo(video_info)

\* C9: the stored credentials are absent if nothing was saved or the last
\* save had empty input, and otherwise are parse_cookies of the last save's
\* input.
C9_StoredIsLastSave ==
    IF last_save = None \/ last_save[2] = <<>>
    THEN vk_cookies = None
    ELSE /\ ~parse_cookies(last_save[2]).raised
         /\ vk_cookies = <<"dict", parse_cookies(last_save[2]).cookies>>

\* C9, for what does hold: the stored credentials change only in the step
\* of a "Save Cookies" click whose input is empty or parses, and then to
\* absent or to parse_cookies of that input alone; a click whose input makes
\* parse_cookies raise, and every step of a URL submission, leave them.
C9_OnlyAnAcceptedSaveWrites ==
    [][/\ vk_cookies' # vk_cookies =>
              /\ pc = "idle"
              /\ last_save' # None
              /\ ~parse_cookies(last_save'[2]).raised
              /\ vk_cookies' = IF last_save'[2] = <<>> THEN None
                               ELSE <<"dict", parse_cookies(last_save'[2]).cookies>>
       /\ (last_save' # last_save /\ parse_cookies(last_save'[2]).raised)
              => vk_cookies' = vk_cookies]_vars

\* The parameter mapping of the player of a decoded value that has one.
ParamsIn(d) == Lookup(PlayerIn(d)[2], K_params)[2][1][2]
\* The URLs of the files other than 'hls'.
ProbedFiles(files) ==
    {files[i][2].url : i \in {n \in 1..Len(files) : files[n][1] # K_hls}}
HeadUrls == {requests[i][2] : i \in {n \in 1..Len(requests) : requests[n][1] = "HEAD"}}

\* C10 as stated: on a successful fetch the number of HEAD requests equals
\* the number of non-hls sources returned, and the POST and the GET are each
\* issued at most once.
C10_OneHeadPerSource ==
    (pc = "idle" /\ IsInfo(video_info)) =>
        /\ NumberOf("HEAD") = Len(AvailableQualities(video_info[2].files))
        /\ NumberOf("POST") <= 1
        /\ NumberOf("GET") <= 1

\* C10 amended: on a successful fetch one HEAD is issued per parameter key
\* the parser accepts as a source (per source found, in the fallback), so
\* the HEAD requests are at least as many as the non-hls sources returned,
\* and more when two keys (url<q> and cache<q>) give the same label; the URL
\* of every non-hls source returned is probed, the 'hls' URL is not, and the
\* POST and the GET are each issued at most once.
C10_OneHeadPerAcceptedKey ==
    (pc = "idle" /\ IsInfo(video_info)) =>
        /\ IF IsInfo(parser_ret)
           THEN NumberOf("HEAD") =
                    Cardinality({i \in 1..Len(ParamsIn(json_data)) :
                                    IsSourceKey(ParamsIn(json_data)[i][1])})
           ELSE NumberOf("HEAD") = Len(video_info[2].files)
        /\ NumberOf("HEAD") >= Len(AvailableQualities(video_info[2].files))
        /\ ProbedFiles(video_info[2].files) \subseteq HeadUrls
        /\ \A i \in 1..Len(video_info[2].files) :
               video_info[2].files[i][1] = K_hls =>
                   video_info[2].files[i][2].url \notin HeadUrls
        /\ NumberOf("POST") = 1
        /\ NumberOf("GET") <= 1

\* url240 and cache240 were both probed and one mp4_240 entry was returned.
C10_Witness ==
    /\ pc = "idle"
    /\ IsInfo(video_info)
    /\ IsInfo(parser_ret)
    /\ NumberOf("HEAD") = 2
    /\ Labels(video_info[2].files) = {S_mp4_ \o <<"2", "4", "0">>}
    /\ video_info[2].files[1][2].url = U2
===========================================================================
